---------------------------- MODULE Spec2Model ----------------------------
(***************************************************************************)
(* A model of PaymentService (src/ios_src/services/PaymentService.ts), the *)
(* mock payment service of the Jam3a mobile app.                           *)
(*                                                                         *)
(* Every process* method and verifyPayment is an `async` function that     *)
(* returns `new Promise(...)` whose executor arms one setTimeout; the      *)
(* timer's callback reads the clock (Date.now(), then new Date()) and      *)
(* resolves the promise.  getAvailablePaymentMethods is async and returns  *)
(* at once; getProductPrice is synchronous.  Platform.OS is the ambient    *)
(* platform tag of react-native.                                           *)
(*                                                                         *)
(* State: the platform tag, the millisecond clock, the calls made so far   *)
(* (each with its promise, its timer and its result) and the price         *)
(* lookups made so far.                                                    *)
(***************************************************************************)
EXTENDS Integers, Sequences, FiniteSets, TLC

VARIABLES
    platform,   \* Platform.OS
    now,        \* the wall clock (Date.now(), ms since the epoch) when last read
    calls,      \* the invocations of the async methods, in invocation order
    lookups     \* the invocations of getProductPrice, in invocation order

vars == <<platform, now, calls, lookups>>

---------------------------------------------------------------------------
(* Bounds of the model.                                                    *)

\* The number of async calls a behaviour makes.
MaxCalls == 3

\* The number of getProductPrice lookups a behaviour makes.
MaxLookups == 2

\* The clock readings a behaviour draws for a timer's callback are at most
\* MaxLate ms past the clock's last reading before the call plus the delay
\* (the code puts no limit on how late a callback runs).
MaxLate == 1

\* The clock advances by at most MaxDrift ms between the two clock reads of
\* one callback in a behaviour (the code puts no limit on it).
MaxDrift == 1

---------------------------------------------------------------------------
(* JavaScript values.                                                      *)

\* A finite JS number m * 2^e (a double is a dyadic rational), kept
\* normalised: m is odd, or the number is zero (m = 0, e = 0).
RECURSIVE Normalize(_, _)
Normalize(m, e) ==
    IF m = 0 THEN [m |-> 0, e |-> 0]
    ELSE IF m % 2 = 0 THEN Normalize(m \div 2, e + 1)
    ELSE [m |-> m, e |-> e]

\* The integer n as a JS number.
Num(n) == Normalize(n, 0)

\* The exponent of the least positive double, Number.MIN_VALUE = 2^-1074.
MinExp == -1074

\* Number.MIN_VALUE (5e-324).
MIN_VALUE == [m |-> 1, e |-> MinExp]

RECURSIVE Pow2(_)
Pow2(k) == IF k = 0 THEN 1 ELSE 2 * Pow2(k - 1)

\* m / d rounded to the nearest integer, ties to even (IEEE 754 default).
RoundHalfEven(m, d) ==
    LET q == m \div d
        r == m % d
    IN  IF 2 * r < d THEN q
        ELSE IF 2 * r > d THEN q + 1
        ELSE IF q % 2 = 0 THEN q ELSE q + 1

\* x / 2^k in double arithmetic, x >= 0: exact while the quotient is a
\* multiple of 2^MinExp, rounded to the nearest such multiple otherwise
\* (gradual underflow).
DivPow2(x, k) ==
    IF x.m = 0 THEN x
    ELSE IF x.e - k >= MinExp THEN [m |-> x.m, e |-> x.e - k]
    ELSE Normalize(RoundHalfEven(x.m, Pow2(MinExp - (x.e - k))), MinExp)

\* x * 2^k for a finite product (no overflow within the amounts used).
MulPow2(x, k) == IF x.m = 0 THEN x ELSE [m |-> x.m, e |-> x.e + k]

\* The integer part of x >= 0 (Math.floor), for the amounts used here.
Floor(x) ==
    IF x.e >= 0 THEN x
    ELSE IF x.e < -30 THEN Num(0)
    ELSE Num(x.m \div Pow2(-x.e))

\* `amount / 4` computed as an integer quotient.
InstallmentAmountTruncated(amount) == Floor(DivPow2(amount, 2))

\* `amount / 4`, the per-instalment amount of processTabby.
InstallmentAmount(amount) == DivPow2(amount, 2)

\* The value of a promise that has none (yet), and of a missing property.
Undefined == [type |-> "undefined"]


---------------------------------------------------------------------------
(* Dates and strings.                                                      *)

\* n in decimal, left-padded with zeros to w digits.
RECURSIVE Pad(_, _)
Pad(n, w) ==
    IF w <= Len(ToString(n)) THEN ToString(n)
    ELSE "0" \o Pad(n, w - 1)

\* new Date(t).toISOString() for an epoch time t in ms, 0 <= t < 31 days
\* (every time of the model lies in January 1970).
toISOString(t) ==
    "1970-01-" \o Pad(t \div 86400000 + 1, 2)
        \o "T" \o Pad((t \div 3600000) % 24, 2)
        \o ":" \o Pad((t \div 60000) % 60, 2)
        \o ":" \o Pad((t \div 1000) % 60, 2)
        \o "." \o Pad(t % 1000, 3) \o "Z"

---------------------------------------------------------------------------
(* The operations and their fixed parts.                                   *)

PaymentOps ==
    {"processCreditCard", "processApplePay", "processGooglePay",
     "processSTCPayiOS", "processSTCPayAndroid", "processTabby"}

\* The provider tag that starts a transactionId, with STC Pay on Android
\* given the tag of STC Pay on iOS.
ProviderTagShared(op) ==
    CASE op = "processCreditCard"    -> "moyasar_"
      [] op = "processApplePay"      -> "apple_pay_"
      [] op = "processGooglePay"     -> "google_pay_"
      [] op = "processSTCPayiOS"     -> "stc_pay_ios_"
      [] op = "processSTCPayAndroid" -> "stc_pay_ios_"
      [] op = "processTabby"         -> "tabby_"

\* The provider tag that starts a transactionId (lines 21, 46, 71, 92, 113,
\* 134).
ProviderTag(op) ==
    CASE op = "processCreditCard"    -> "moyasar_"
      [] op = "processApplePay"      -> "apple_pay_"
      [] op = "processGooglePay"     -> "google_pay_"
      [] op = "processSTCPayiOS"     -> "stc_pay_ios_"
      [] op = "processSTCPayAndroid" -> "stc_pay_android_"
      [] op = "processTabby"         -> "tabby_"

\* The paymentMethod of a result (lines 24, 49, 74, 95, 116, 137).
PaymentMethod(op) ==
    CASE op = "processCreditCard"    -> "credit-card"
      [] op = "processApplePay"      -> "apple-pay"
      [] op = "processGooglePay"     -> "google-pay"
      [] op = "processSTCPayiOS"     -> "stc-pay"
      [] op = "processSTCPayAndroid" -> "stc-pay"
      [] op = "processTabby"         -> "tabby"

\* The simulated latencies, in ms: the second argument of each setTimeout.
DelayCreditCard == 2000
DelayApplePay == 1500
DelayGooglePay == 1500
DelaySTCPay == 1800
DelayTabby == 2200
DelayVerify == 1000

Delay(op) ==
    CASE op = "processCreditCard"    -> DelayCreditCard
      [] op = "processApplePay"      -> DelayApplePay
      [] op = "processGooglePay"     -> DelayGooglePay
      [] op = "processSTCPayiOS"     -> DelaySTCPay
      [] op = "processSTCPayAndroid" -> DelaySTCPay
      [] op = "processTabby"         -> DelayTabby
      [] op = "verifyPayment"        -> DelayVerify

ApplePayError == "Apple Pay is only available on iOS devices"
GooglePayError == "Google Pay is only available on Android devices"


---------------------------------------------------------------------------
(* Inputs.                                                                 *)

\* The values Platform.OS takes: the two mobile platforms and a third one.
Platforms == {"ios", "android", "web"}

\* The amount paid: a catalogue price.
Amounts == {Num(799)}

\* Amounts paid in instalments: that one, the spec's example, and the least
\* positive numbers 2^-1074, 2^-1073, 3 * 2^-1074 and 2^-1072.
TabbyAmounts ==
    Amounts \cup {Num(100), MIN_VALUE, [m |-> 1, e |-> MinExp + 1],
                  [m |-> 3, e |-> MinExp], [m |-> 1, e |-> MinExp + 2]}

Currencies == {"SAR"}

Descriptions == {"Jam3a group deal"}

\* A transaction id no payment operation issues.
NeverIssued == "txn_never_issued"

---------------------------------------------------------------------------
(* Platform gates.                                                         *)

\* A gate that refuses nothing.
RefusedNowhere(os) == FALSE

\* `Platform.OS !== 'ios'` (line 35).
ApplePayRefused(os) == os # "ios"

\* `Platform.OS !== 'android'` (line 60).
GooglePayRefused(os) == os # "android"

---------------------------------------------------------------------------
(* The body of an async method, run synchronously up to its return: it     *)
(* throws, or returns a value, or returns a new promise whose executor has *)
(* armed a timer.                                                          *)

Throw(msg) == [kind |-> "throw", error |-> msg, delay |-> 0, value |-> Undefined]
Return(v) == [kind |-> "return", error |-> "", delay |-> 0, value |-> v]
NewPromiseWithTimeout(ms) ==
    [kind |-> "timer", error |-> "", delay |-> ms, value |-> Undefined]

\* Lines 12-29, 34-54, 59-79, 84-100, 105-121, 126-144: the gate, if any,
\* then `return new Promise(... setTimeout(..., delay))`.
PaymentBody(op) ==
    IF op = "processApplePay" /\ ApplePayRefused(platform)
    THEN Throw(ApplePayError)
    ELSE IF op = "processGooglePay" /\ GooglePayRefused(platform)
    THEN Throw(GooglePayError)
    ELSE NewPromiseWithTimeout(Delay(op))

(* The record of a call: op and args as invoked; thrown, whether the       *)
(* invocation raised an exception to its caller (an async function never   *)
(* does); promise, the state of the returned promise; error and value,     *)
(* what the promise was rejected or fulfilled with; timer, whether its     *)
(* setTimeout is armed, and due, when that timer is due; clockRead, what   *)
(* Date.now() returned in its callback (-1 before); settles, how many      *)
(* times the call was completed (rejected at once, or resolve called).     *)

\* A call of an `async` function: the caller always gets a promise.  A throw
\* in the body rejects that promise, a returned value fulfils it, and a
\* returned promise is adopted (here: the pending promise of the timer).
AsyncFunction(op, args, body) ==
    [op |-> op, args |-> args,
     thrown |-> FALSE,
     promise |-> CASE body.kind = "throw" -> "rejected"
                   [] body.kind = "return" -> "fulfilled"
                   [] body.kind = "timer" -> "pending",
     error |-> body.error,
     value |-> body.value,
     timer |-> body.kind = "timer",
     due |-> IF body.kind = "timer" THEN now + body.delay ELSE 0,
     clockRead |-> -1,
     settles |-> IF body.kind = "timer" THEN 0 ELSE 1]

---------------------------------------------------------------------------
(* Results.                                                                *)

\* The object a payment's timer callback resolves with; t1 is the clock
\* read by Date.now(), t2 the clock read by new Date() right after.
PaymentResult(op, args, t1, t2) ==
    IF op = "processTabby"
    THEN [success |-> TRUE,
          transactionId |-> ProviderTag(op) \o ToString(t1),
          amount |-> args.amount,
          currency |-> args.currency,
          paymentMethod |-> PaymentMethod(op),
          installments |-> 4,
          installmentAmount |-> InstallmentAmount(args.amount),
          timestamp |-> toISOString(t2)]
    ELSE [success |-> TRUE,
          transactionId |-> ProviderTag(op) \o ToString(t1),
          amount |-> args.amount,
          currency |-> args.currency,
          paymentMethod |-> PaymentMethod(op),
          timestamp |-> toISOString(t2)]

\* The transaction ids the payment calls have issued so far.
IssuedIds ==
    {calls[i].value.transactionId :
        i \in {j \in DOMAIN calls :
                 calls[j].op \in PaymentOps /\ calls[j].promise = "fulfilled"}}

\* A verification that consults the ids issued so far.
VerifyResultChecked(transactionId) ==
    [transactionId |-> transactionId,
     status |-> IF transactionId \in IssuedIds THEN "completed" ELSE "unknown",
     verified |-> transactionId \in IssuedIds]

\* Lines 155-159: the object verifyPayment's timer callback resolves with.
VerifyResult(transactionId) ==
    [transactionId |-> transactionId,
     status |-> "completed",
     verified |-> TRUE]

\* The catalogue entries of lines 168-173.
commonMethods ==
    << [id |-> "credit-card", name |-> "Credit/Debit Card", icon |-> "card"],
       [id |-> "mada", name |-> "Mada", icon |-> "card"],
       [id |-> "stc-pay", name |-> "STC Pay", icon |-> "phone-portrait"],
       [id |-> "tabby", name |-> "Tabby - Pay Later", icon |-> "time"] >>

ApplePayMethod == [id |-> "apple-pay", name |-> "Apple Pay", icon |-> "logo-apple"]
GooglePayMethod == [id |-> "google-pay", name |-> "Google Pay", icon |-> "logo-google"]

\* The catalogue with the platform-specific entries exchanged.
AvailablePaymentMethodsSwapped(os) ==
    IF os = "ios"
    THEN commonMethods \o <<GooglePayMethod>>
    ELSE commonMethods \o <<ApplePayMethod>>

\* Lines 175-185: the array getAvailablePaymentMethods returns.
AvailablePaymentMethods(os) ==
    IF os = "ios"
    THEN commonMethods \o <<ApplePayMethod>>
    ELSE commonMethods \o <<GooglePayMethod>>


---------------------------------------------------------------------------
(* The price table.                                                        *)

\* The own properties of the object literal of lines 194-204.
productPrices ==
    ("iphone-16" :> 799) @@ ("iphone-16-pro" :> 999)
        @@ ("iphone-16-pro-max" :> 1199) @@ ("samsung-s25" :> 799)
        @@ ("samsung-s25-plus" :> 999) @@ ("samsung-s25-ultra" :> 1199)
        @@ ("samsung-fold6" :> 1799) @@ ("samsung-flip6" :> 999)
        @@ ("default" :> 799)

\* The eight products of the table (its keys other than 'default').
ListedProducts == DOMAIN productPrices \ {"default"}

\* Properties every object literal inherits from Object.prototype.
ObjectPrototypeProps ==
    {"constructor", "toString", "toLocaleString", "valueOf",
     "hasOwnProperty", "isPrototypeOf", "propertyIsEnumerable", "__proto__",
     "__defineGetter__", "__defineSetter__", "__lookupGetter__",
     "__lookupSetter__"}

\* `productPrices[key]`: an own property, else an inherited one, else
\* undefined.
GetProperty(key) ==
    IF key \in DOMAIN productPrices
    THEN [type |-> "number", value |-> productPrices[key]]
    ELSE IF key = "__proto__" THEN [type |-> "object"]
    ELSE IF key \in ObjectPrototypeProps THEN [type |-> "function"]
    ELSE Undefined

\* ToBoolean of a value: undefined and 0 are falsy, objects and functions
\* truthy.
Truthy(v) ==
    CASE v.type = "undefined" -> FALSE
      [] v.type = "number" -> v.value # 0
      [] OTHER -> TRUE

\* `a || b`.
Or(a, b) == IF Truthy(a) THEN a ELSE b

\* Line 206: `productPrices[productId] || productPrices['default']`.
ProductPrice(productId) == Or(GetProperty(productId), GetProperty("default"))

\* Product identifiers looked up: the table's keys, unlisted identifiers,
\* and identifiers that name inherited properties.
ProductIds ==
    DOMAIN productPrices
        \cup {"unknown-id-xyz", "", "constructor", "toString", "__proto__",
              "__defineGetter__"}

---------------------------------------------------------------------------
(* The state machine.                                                      *)

Init ==
    /\ platform \in Platforms
    /\ now = 0
    /\ calls = <<>>
    /\ lookups = <<>>

\* An invocation of an async method with the given body.  The due time of
\* its timer is reckoned from the last reading of the clock; a call made
\* some ms after that reading is one whose callback is that much later.
Invoke(op, args, body) ==
    /\ Len(calls) < MaxCalls
    /\ calls' = Append(calls, AsyncFunction(op, args, body))
    /\ UNCHANGED <<platform, now, lookups>>

PaymentArgs(amount, currency, description) ==
    [amount |-> amount, currency |-> currency, description |-> description]

processCreditCard(amount, currency, description) ==
    Invoke("processCreditCard", PaymentArgs(amount, currency, description),
           PaymentBody("processCreditCard"))

processApplePay(amount, currency, description) ==
    Invoke("processApplePay", PaymentArgs(amount, currency, description),
           PaymentBody("processApplePay"))

processGooglePay(amount, currency, description) ==
    Invoke("processGooglePay", PaymentArgs(amount, currency, description),
           PaymentBody("processGooglePay"))

processSTCPayiOS(amount, currency, description) ==
    Invoke("processSTCPayiOS", PaymentArgs(amount, currency, description),
           PaymentBody("processSTCPayiOS"))

processSTCPayAndroid(amount, currency, description) ==
    Invoke("processSTCPayAndroid", PaymentArgs(amount, currency, description),
           PaymentBody("processSTCPayAndroid"))

processTabby(amount, currency, description) ==
    Invoke("processTabby", PaymentArgs(amount, currency, description),
           PaymentBody("processTabby"))

verifyPayment(transactionId) ==
    Invoke("verifyPayment", [transactionId |-> transactionId],
           NewPromiseWithTimeout(DelayVerify))

getAvailablePaymentMethods ==
    Invoke("getAvailablePaymentMethods", Undefined,
           Return(AvailablePaymentMethods(platform)))

getProductPrice(productId) ==
    /\ Len(lookups) < MaxLookups
    /\ lookups' = Append(lookups, [productId |-> productId,
                                   returned |-> ProductPrice(productId)])
    /\ UNCHANGED <<platform, now, calls>>

\* The calls whose timer is armed.
Armed == {i \in DOMAIN calls : calls[i].timer}

\* `reject(...)` in place of `resolve(...)`.
Reject(call, value) ==
    IF call.promise = "pending"
    THEN [call EXCEPT !.promise = "rejected", !.settles = @ + 1]
    ELSE [call EXCEPT !.settles = @ + 1]

\* `resolve(value)`: settles a pending promise, has no effect on a settled
\* one.
Resolve(call, value) ==
    IF call.promise = "pending"
    THEN [call EXCEPT !.promise = "fulfilled", !.value = value,
                      !.settles = @ + 1]
    ELSE [call EXCEPT !.settles = @ + 1]

\* The value a call's timer callback passes to resolve.
CallbackValue(call, t1, t2) ==
    IF call.op = "verifyPayment"
    THEN VerifyResult(call.args.transactionId)
    ELSE PaymentResult(call.op, call.args, t1, t2)

\* The greater of two numbers.
Max(a, b) == IF a >= b THEN a ELSE b

\* The timer of call i fires and its callback runs, reading t at Date.now()
\* and t + drift at new Date() (verifyPayment's callback reads no clock).
\* The timer measures its delay on the event loop's own clock, so the wall
\* clock may still show the millisecond before the delay is over; the call
\* may have been made, and the callback may run, any time later, and any
\* time may pass between the two reads.  The wall clock does not run
\* backwards.  setTimeout is one-shot.
FireTimer(i, t, drift) ==
    /\ i \in Armed
    /\ t >= now
    /\ t >= calls[i].due - 1
    /\ drift >= 0
    /\ calls[i].op = "verifyPayment" => drift = 0
    /\ calls' = [calls EXCEPT ![i] =
                    [Resolve(@, CallbackValue(@, t, t + drift))
                        EXCEPT !.timer = FALSE,
                               !.clockRead =
                                   IF calls[i].op # "verifyPayment"
                                   THEN t ELSE @]]
    /\ now' = t + drift
    /\ UNCHANGED <<platform, lookups>>

\* The ids verifyPayment is called with: one never issued, and those issued.
VerifyIds == {NeverIssued} \cup IssuedIds

\* The payment operations, invoked with amounts of the given sets.
Payments(amounts, tabbyAmounts) ==
    \/ \E a \in amounts, c \in Currencies, d \in Descriptions :
        \/ processCreditCard(a, c, d)
        \/ processApplePay(a, c, d)
        \/ processGooglePay(a, c, d)
        \/ processSTCPayiOS(a, c, d)
        \/ processSTCPayAndroid(a, c, d)
    \/ \E a \in tabbyAmounts, c \in Currencies, d \in Descriptions :
        processTabby(a, c, d)

Verifications == \E id \in VerifyIds : verifyPayment(id)

\* The clock readings drawn for the start of the callback of call i.
CallbackTimes(i) ==
    Max(now, calls[i].due - 1)..Max(now, calls[i].due + MaxLate)

\* The advances of the clock drawn for between the two reads of a callback.
ClockDrifts == 0..MaxDrift

\* The event loop runs the callback of call i.
Callback(i) ==
    /\ i \in Armed
    /\ \E t \in CallbackTimes(i), drift \in ClockDrifts : FireTimer(i, t, drift)

\* The event loop runs the callback of some timer.
Timers == \E i \in 1..MaxCalls : Callback(i)

\* The payment operations, the verification and the catalogue.
Next ==
    \/ Payments(Amounts, Amounts)
    \/ Verifications
    \/ getAvailablePaymentMethods
    \/ Timers

Spec == Init /\ [][Next]_vars

\* The timed operations, for the behaviours in which every timer
\* eventually fires.
TimedNext ==
    \/ Payments(Amounts, Amounts)
    \/ Verifications
    \/ Timers

\* The event loop runs the callback of every armed timer.
FairSpec ==
    /\ Init /\ [][TimedNext]_vars
    /\ \A i \in 1..MaxCalls : WF_vars(Callback(i))

\* Payments in instalments alone, of all the amounts.
TabbyNext ==
    \/ \E a \in TabbyAmounts, c \in Currencies, d \in Descriptions :
        processTabby(a, c, d)
    \/ Timers

\* One platform: processTabby does not read Platform.OS.
TabbyInit == Init /\ platform = "ios"

TabbySpec == TabbyInit /\ [][TabbyNext]_vars

\* The price table alone.
PriceNext == \E id \in ProductIds : getProductPrice(id)

PriceSpec == Init /\ [][PriceNext]_vars


---------------------------------------------------------------------------
(* Properties.                                                             *)

Fulfilled(i) == calls[i].promise = "fulfilled"

\* The payment calls that have resolved.
Paid == {i \in DOMAIN calls : calls[i].op \in PaymentOps /\ Fulfilled(i)}

\* C1: processApplePay yields a successful result tagged 'apple-pay' if and
\* only if the platform is 'ios', processGooglePay one tagged 'google-pay'
\* if and only if it is 'android'; on any other platform the call ends in
\* the platform-mismatch error, with no result and no timer.
PlatformGate ==
    \A i \in DOMAIN calls :
        LET c == calls[i]
            home == IF c.op = "processApplePay" THEN "ios" ELSE "android"
            tag == IF c.op = "processApplePay" THEN "apple-pay" ELSE "google-pay"
            msg == IF c.op = "processApplePay" THEN ApplePayError
                   ELSE GooglePayError
        IN  c.op \in {"processApplePay", "processGooglePay"} =>
              IF platform = home
              THEN /\ c.promise \in {"pending", "fulfilled"}
                   /\ c.promise = "pending" <=> c.timer
                   /\ c.promise = "fulfilled" =>
                        /\ c.value.success = TRUE
                        /\ c.value.paymentMethod = tag
                        /\ c.value.amount = c.args.amount
                        /\ c.value.currency = c.args.currency
              ELSE /\ c.promise \notin {"pending", "fulfilled"}
                   /\ c.error = msg
                   /\ c.value = Undefined
                   /\ ~c.timer

\* On iOS an Apple Pay call has resolved and a Google Pay call has failed.
PlatformGateWitness ==
    /\ platform = "ios"
    /\ \E i, j \in DOMAIN calls :
        /\ calls[i].op = "processApplePay" /\ Fulfilled(i)
        /\ calls[j].op = "processGooglePay" /\ calls[j].promise = "rejected"

\* The gated calls made on a platform their gate refuses.
Mismatched ==
    {i \in DOMAIN calls :
        \/ calls[i].op = "processApplePay" /\ platform # "ios"
        \/ calls[i].op = "processGooglePay" /\ platform # "android"}

\* C2: the platform-mismatch error is thrown synchronously to the caller,
\* not delivered through the returned promise, and no timer is started.
MismatchThrownSynchronously ==
    \A i \in Mismatched :
        /\ calls[i].thrown
        /\ calls[i].promise # "rejected"
        /\ ~calls[i].timer

\* C3, as stated: the results of any calls in flight together have pairwise
\* distinct transactionIds.
DistinctTransactionIds ==
    \A i, j \in Paid :
        i # j => calls[i].value.transactionId # calls[j].value.transactionId

\* C3, amended: two results have the same transactionId exactly when they
\* come from the same operation and their callbacks read the same
\* millisecond from the clock; results of different operations, or of
\* callbacks run in different milliseconds, have distinct transactionIds.
\* Nor would any other operation have issued the transactionId of a result,
\* whichever of the milliseconds read so far its callback had read.
DistinctUnlessSameOpSameMs ==
    /\ \A i, j \in Paid :
        i # j =>
            (calls[i].value.transactionId = calls[j].value.transactionId
                <=> /\ calls[i].op = calls[j].op
                    /\ calls[i].clockRead = calls[j].clockRead)
    /\ \A i, j \in Paid :
        \A op \in PaymentOps \ {calls[i].op} :
            calls[i].value.transactionId
                # ProviderTag(op) \o ToString(calls[j].clockRead)

\* Call j was made while the timer of the earlier call i was still armed.
InFlightTogether(i, j) ==
    /\ i < j
    /\ calls[i].due > 0 /\ calls[j].due > 0
    /\ calls[j].due - Delay(calls[j].op) < calls[i].due - 1

\* Two calls in flight together have resolved: two of one operation in
\* different milliseconds, or two of different operations in the same one.
DistinctIdsWitness ==
    \E i, j \in Paid :
        /\ InFlightTogether(i, j)
        /\ \/ calls[i].op = calls[j].op /\ calls[i].clockRead # calls[j].clockRead
           \/ calls[i].op # calls[j].op /\ calls[i].clockRead = calls[j].clockRead
        /\ calls[i].value.transactionId # calls[j].value.transactionId

\* The calls C4 is about: every timed call but a gated one on a platform its
\* gate refuses.
Completing(i) ==
    /\ i \in DOMAIN calls
    /\ calls[i].op \in PaymentOps \cup {"verifyPayment"}
    /\ i \notin Mismatched

\* C4: every such invocation eventually completes exactly once, by
\* resolving, and never rejects, whatever other calls are in flight: no such
\* call ever rejects or settles twice, and from some point on every one of
\* them has resolved, once, and its timer is spent.
EventuallyResolvesOnce ==
    /\ [](\A i \in DOMAIN calls :
            Completing(i) =>
                /\ ~calls[i].thrown
                /\ calls[i].promise \in {"pending", "fulfilled"}
                /\ calls[i].settles <= 1
                /\ calls[i].settles = 1 <=> calls[i].promise = "fulfilled")
    /\ <>[](\A i \in DOMAIN calls :
                Completing(i) => /\ calls[i].promise = "fulfilled"
                                 /\ calls[i].settles = 1
                                 /\ ~calls[i].timer)

\* Two calls that were in flight together, one of them an STC Pay or a
\* Tabby payment, have both resolved.
ResolvesWitness ==
    \E i, j \in DOMAIN calls :
        /\ Completing(i) /\ Completing(j)
        /\ InFlightTogether(i, j)
        /\ calls[i].op \in {"processSTCPayiOS", "processSTCPayAndroid",
                             "processTabby"}
        /\ Fulfilled(i) /\ Fulfilled(j)
        /\ calls[i].settles = 1 /\ calls[j].settles = 1

\* The catalogue calls.
Catalogued == {i \in DOMAIN calls : calls[i].op = "getAvailablePaymentMethods"}

\* C5: getAvailablePaymentMethods returns exactly 5 descriptors: credit-card,
\* mada, stc-pay, tabby in that order on every platform, then the single
\* platform-specific one, apple-pay on iOS and google-pay elsewhere.
CatalogueShape ==
    \A i \in Catalogued :
        LET m == calls[i].value
        IN  /\ Fulfilled(i)
            /\ Len(m) = 5
            /\ [k \in 1..4 |-> m[k].id]
                 = <<"credit-card", "mada", "stc-pay", "tabby">>
            /\ [k \in 1..4 |-> m[k].name]
                 = <<"Credit/Debit Card", "Mada", "STC Pay", "Tabby - Pay Later">>
            /\ [k \in 1..4 |-> m[k].icon]
                 = <<"card", "card", "phone-portrait", "time">>
            /\ m[5].id = IF platform = "ios" THEN "apple-pay" ELSE "google-pay"
            /\ Cardinality({k \in 1..Len(m) :
                              m[k].id \in {"apple-pay", "google-pay"}}) = 1

\* The catalogue was returned off iOS.
CatalogueWitness ==
    /\ platform # "ios"
    /\ \E i \in Catalogued : Fulfilled(i) /\ calls[i].value[5].id = "google-pay"

\* C6: getProductPrice always returns a number: the table's price for a
\* listed product and the default price 799 for every other string.
PriceIsTotal ==
    \A k \in DOMAIN lookups :
        /\ lookups[k].returned.type = "number"
        /\ lookups[k].returned.value =
              IF lookups[k].productId \in ListedProducts
              THEN productPrices[lookups[k].productId]
              ELSE 799

\* The verification calls that have resolved.
Verified == {i \in DOMAIN calls : calls[i].op = "verifyPayment" /\ Fulfilled(i)}

\* C7: verifyPayment(id) resolves to {transactionId: id, status:
\* 'completed', verified: true} after any earlier calls, whether or not id
\* was ever issued.
VerifyIsStateless ==
    \A i \in DOMAIN calls :
        calls[i].op = "verifyPayment" =>
            /\ calls[i].promise \in {"pending", "fulfilled"}
            /\ Fulfilled(i) =>
                 calls[i].value = [transactionId |-> calls[i].args.transactionId,
                                   status |-> "completed",
                                   verified |-> TRUE]

\* After a payment has resolved and the id it issued was verified, the
\* verification of an id that was never issued has resolved.
VerifyWitness ==
    \E i \in Paid : \E j, k \in Verified :
        /\ i < j /\ j < k
        /\ calls[j].args.transactionId = calls[i].value.transactionId
        /\ calls[k].args.transactionId \notin IssuedIds

\* The Tabby calls that have resolved.
TabbyPaid == {i \in Paid : calls[i].op = "processTabby"}

\* What every Tabby result holds besides the instalment amount.
TabbyShape(i) ==
    /\ calls[i].value.installments = 4
    /\ calls[i].value.amount = calls[i].args.amount
    /\ calls[i].value.currency = calls[i].args.currency
    /\ calls[i].value.paymentMethod = "tabby"
    /\ calls[i].value.success = TRUE

\* C8, as stated: for every amount, installments = 4 and 4 *
\* installmentAmount = amount, with amount and currency echoed and
\* paymentMethod 'tabby'.
TabbyQuarterExact ==
    \A i \in TabbyPaid :
        /\ TabbyShape(i)
        /\ MulPow2(calls[i].value.installmentAmount, 2) = calls[i].args.amount

\* C8, amended: the same for every amount that is a multiple of 2^-1072
\* (every amount of magnitude 2^-1020 or more is one); for a smaller
\* positive amount the quarter is not a double, amount / 4 is rounded and 4 *
\* installmentAmount differs from amount.
TabbyQuarterExactUnlessUnderflow ==
    \A i \in TabbyPaid :
        /\ TabbyShape(i)
        /\ MulPow2(calls[i].value.installmentAmount, 2) = calls[i].args.amount
             <=> \/ calls[i].args.amount.m = 0
                 \/ calls[i].args.amount.e >= MinExp + 2

\* A Tabby payment of 799 has resolved: its quarter, 199.75, is no integer.
TabbyWitness ==
    \E i \in TabbyPaid :
        /\ calls[i].args.amount = Num(799)
        /\ calls[i].value.installmentAmount = [m |-> 799, e |-> -2]

\* C9: the time embedded after the provider tag in a result's transactionId
\* denotes the same instant as the result's timestamp.
IdTimeIsTimestamp ==
    \A i \in Paid :
        \E t \in (calls[i].due - 1)..now :
            /\ calls[i].value.transactionId = ProviderTag(calls[i].op) \o ToString(t)
            /\ calls[i].value.timestamp = toISOString(t)

\* The operation that processes a platform-specific catalogue entry.
ProcessOperation(id) ==
    CASE id = "apple-pay" -> "processApplePay"
      [] id = "google-pay" -> "processGooglePay"

\* C10: on every platform, the platform-specific method the catalogue offers
\* is one whose process operation is accepted there: processing it never
\* fails with the platform-mismatch error.
CatalogueAgreesWithGate ==
    \A i \in Catalogued :
        \A j \in DOMAIN calls :
            calls[j].op = ProcessOperation(calls[i].value[5].id) =>
                calls[j].promise # "rejected"

=============================================================================
